---- MODULE Spec2Model ----
(***************************************************************************)
(* Model of lab_results_app/results_parsers.py: parse_file, which probes   *)
(* a result file, dispatches to parse_tns_results (Excel sheet) or         *)
(* parse_zeta_potential_results (CSV), validates the file, computes the    *)
(* control-normalised values and inserts them into the results table.      *)
(*                                                                         *)
(* Values are IEEE-754 binary64 numbers, as in the program: a finite       *)
(* non-zero value is sign * (hi * 2^27 + lo) * 2^(e - 52) with a 53-bit    *)
(* significand held in two limbs, and division rounds to nearest, ties to  *)
(* even.                                                                   *)
(***************************************************************************)
EXTENDS Integers, Sequences, FiniteSets, TLC

(***************************************************************************)
(* Cells of a worksheet or of a CSV table: a string, an integer or empty.  *)
(***************************************************************************)
Str(s) == [k |-> "str", s |-> s, n |-> 0]

Num(n) == [k |-> "int", s |-> "", n |-> n]

None == [k |-> "none", s |-> "", n |-> 0]

\* Python truthiness of a cell value: None, 0 and "" are falsy.
Truthy(c) == \/ c.k = "str" /\ c.s # ""
             \/ c.k = "int" /\ c.n # 0

\* any(cells)
AnyTruthy(cells) == \E i \in 1..Len(cells) : Truthy(cells[i])

(***************************************************************************)
(* binary64 arithmetic.                                                    *)
(***************************************************************************)
Limb == 2^27

HiMin == 2^25

FloorLog2(n) == CHOOSE k \in 0..26 : 2^k <= n /\ n < 2^(k+1)

Abs(n) == IF n < 0 THEN -n ELSE n

FZero(neg) == [cls |-> "zero", neg |-> neg, e |-> 0, hi |-> 0, lo |-> 0]

FInf(neg) == [cls |-> "inf", neg |-> neg, e |-> 0, hi |-> 0, lo |-> 0]

FNaN == [cls |-> "nan", neg |-> FALSE, e |-> 0, hi |-> 0, lo |-> 0]

\* float(n) for an integer of magnitude below 2^26 (exact).
FromInt(n) ==
    IF n = 0 THEN FZero(FALSE)
    ELSE LET k == FloorLog2(Abs(n))
         IN  [cls |-> "fin", neg |-> n < 0, e |-> k,
              hi |-> Abs(n) * 2^(25 - k), lo |-> 0]

\* Two-limb naturals <<hi, lo>> standing for hi * 2^27 + lo.
LimbGE(a, b) == a[1] > b[1] \/ (a[1] = b[1] /\ a[2] >= b[2])

LimbSub(a, b) ==
    IF a[2] >= b[2] THEN <<a[1] - b[1], a[2] - b[2]>>
    ELSE <<a[1] - b[1] - 1, a[2] + Limb - b[2]>>

LimbDbl(a) == <<2 * a[1] + (2 * a[2]) \div Limb, (2 * a[2]) % Limb>>

LimbInc(a) == IF a[2] + 1 = Limb THEN <<a[1] + 1, 0>> ELSE <<a[1], a[2] + 1>>

\* One step of restoring division by d on the state <<quotient, remainder>>:
\* the next quotient bit is shifted in and the remainder is doubled.
DivStep(s, d) ==
    IF LimbGE(s[2], d)
    THEN <<LimbInc(LimbDbl(s[1])), LimbDbl(LimbSub(s[2], d))>>
    ELSE <<LimbDbl(s[1]), LimbDbl(s[2])>>

\* The state after n more steps of the division by d.
LimbPair == Nat \X Nat

LongDiv[s \in LimbPair \X LimbPair, d \in LimbPair, n \in Nat] ==
    IF n = 0 THEN s ELSE LongDiv[DivStep(s, d), d, n - 1]

\* Quotient of two finite non-zero values, rounded to nearest, ties to even.
DivFinite(x, y) ==
    LET mx   == <<x.hi, x.lo>>
        my   == <<y.hi, y.lo>>
        ge   == LimbGE(mx, my)
        e0   == IF ge THEN x.e - y.e ELSE x.e - y.e - 1
        qr   == LongDiv[<<(<<0, 0>>), IF ge THEN mx ELSE LimbDbl(mx)>>, my, 53]
        q    == qr[1]
        r2   == qr[2]
        up   == IF r2 = my THEN q[2] % 2 = 1 ELSE LimbGE(r2, my)
        qq   == IF up THEN LimbInc(q) ELSE q
        over == qq[1] = 2 * HiMin
    IN  [cls |-> "fin", neg |-> x.neg # y.neg,
         e   |-> IF over THEN e0 + 1 ELSE e0,
         hi  |-> IF over THEN HiMin ELSE qq[1],
         lo  |-> IF over THEN 0 ELSE qq[2]]

\* IEEE-754 division x / y.
FDiv(x, y) ==
    CASE x.cls = "nan" \/ y.cls = "nan"       -> FNaN
      [] x.cls = "inf" /\ y.cls = "inf"       -> FNaN
      [] x.cls = "zero" /\ y.cls = "zero"     -> FNaN
      [] x.cls = "inf"                        -> FInf(x.neg # y.neg)
      [] y.cls = "zero"                       -> FInf(x.neg # y.neg)
      [] x.cls = "zero" \/ y.cls = "inf"      -> FZero(x.neg # y.neg)
      [] OTHER                                -> DivFinite(x, y)

\* x < y for two values that are finite (or zero); FALSE when either is NaN.
MagLess(x, y) ==
    \/ x.e < y.e
    \/ x.e = y.e /\ ~LimbGE(<<x.hi, x.lo>>, <<y.hi, y.lo>>)

FLess(x, y) ==
    CASE x.cls = "nan" \/ y.cls = "nan"     -> FALSE
      [] x.cls = "zero" /\ y.cls = "zero"   -> FALSE
      [] x.cls = "zero"                     -> ~y.neg
      [] y.cls = "zero"                     -> x.neg
      [] x.neg # y.neg                      -> x.neg
      [] x.cls = "inf" /\ y.cls = "inf"     -> FALSE
      [] x.cls = "inf"                      -> x.neg
      [] y.cls = "inf"                      -> ~y.neg
      [] OTHER -> IF x.neg THEN MagLess(y, x) ELSE MagLess(x, y)

\* The absent value: Python None, a polars null, an SQL NULL.
FNull == [cls |-> "null", neg |-> FALSE, e |-> 0, hi |-> 0, lo |-> 0]

\* sum(cells) over integer cells.
RECURSIVE SumCells(_)
SumCells(cells) ==
    IF cells = <<>> THEN 0 ELSE Head(cells).n + SumCells(Tail(cells))

\* statistics.mean(cells) and the polars mean(): the sum of the integer
\* cells divided by their number, as a binary64 value.
Mean(cells) == FDiv(FromInt(SumCells(cells)), FromInt(Len(cells)))

\* Python slice row[a:b] of a 0-indexed tuple.
Slice(row, a, b) == SubSeq(row, a + 1, b)

(***************************************************************************)
(* Bounds of the model.                                                    *)
(***************************************************************************)
\* Number of parse_file calls in a run.
MaxCalls == 2

\* The number of parse_file calls in a run that compares calls on the same
\* file.
MaxRepeats == 3

\* The number of requests to the web application in a run.
MaxRequests == 2

(***************************************************************************)
(* TNS input sheets.                                                       *)
(***************************************************************************)
TNS_HEADER == <<Str("<>"), Num(1), Num(2), Num(3), Num(4), Num(5), Num(6),
                Num(7), Num(8), Num(9), Num(10), Num(11), Num(12)>>

\* The extent the sheet must occupy, "A1:M11": 13 columns, 11 rows.
TnsColumns == 13

TnsRows == 11

THRESHOLD == 10

triple_start_indexes == <<1, 4, 7>>

ColumnLetters == <<"A", "B", "C", "D", "E", "F", "G", "H", "I", "J", "K",
                   "L", "M", "N">>

RowLabels == <<"A", "B", "C", "D", "E", "F", "G", "H">>

\* Measurement rows (columns 1..12) used to build the input sheets.
RowOk == <<200, 210, 190, 300, 300, 300, 250, 260, 240, 20, 21, 19>>

RowOk2 == <<40, 41, 39, 50, 50, 50, 60, 60, 60, 4, 3, 5>>

RowRound == <<23, 23, 24, 30, 30, 30, 40, 40, 40, 2, 2, 3>>

RowLow1 == <<100, 102, 98, 200, 198, 202, 50, 52, 48, 20, 20, 20>>

RowLow3 == <<200, 210, 190, 300, 300, 300, 199, 200, 200, 20, 21, 19>>

RowZero == <<200, 210, 190, 300, 300, 300, 250, 260, 240, 0, 0, 0>>

RowChoices == {RowOk, RowOk2, RowRound, RowLow1, RowLow3, RowZero}

\* The 8 data rows: RowOk everywhere except in rows 1 and 4, which are any
\* two of the rows above.
DataGrids ==
    {[r \in 1..(TnsRows - 3) |-> IF r = 1 THEN a ELSE IF r = 4 THEN b ELSE RowOk] :
        a \in RowChoices, b \in RowChoices}

Blank(n) == [i \in 1..n |-> None]

Put(row, i, c) == [row EXCEPT ![i] = c]

\* The worksheet as list(ws.values): rows 1 and 2, the header row and the
\* data rows; v describes the top of the sheet and its extent.
Sheet(v, grid) ==
    LET w    == IF v.extent = "wide" THEN TnsColumns + 1 ELSE TnsColumns
        pad  == Blank(w - TnsColumns)
        r1   == <<v.a1, v.b1>> \o Blank(TnsColumns - 2)
        row1 == CASE v.stray = "M1"   -> Put(r1, TnsColumns, Str("x"))
                  [] v.stray = "falsy" -> Put(r1, 3, Num(0))
                  [] OTHER            -> r1
        row2 == CASE v.stray = "A2"   -> Put(Blank(TnsColumns), 1, Num(5))
                  [] v.stray = "falsy" -> Put(Blank(TnsColumns), TnsColumns, Str(""))
                  [] OTHER            -> Blank(TnsColumns)
        row3 == CASE v.header = "marker"  -> Put(TNS_HEADER, 1, Str("><"))
                  [] v.header = "numbers" -> Put(TNS_HEADER, TnsColumns, Num(13))
                  [] OTHER                -> TNS_HEADER
        body == [r \in 1..Len(grid) |->
                   <<Str(RowLabels[r])>> \o [i \in 1..12 |-> Num(grid[r][i])]]
        rows == <<row1, row2, row3>> \o body
    IN  [r \in 1..Len(rows) |->
           rows[r] \o (IF r = Len(rows) /\ w > TnsColumns THEN <<Num(7)>> ELSE pad)]

TopVariants ==
    [a1 : {Str("Instrument:"), Str("Device:")},
     b1 : {Str("Reader 1"), None},
     stray : {"none", "falsy", "M1", "A2"},
     header : {"ok", "marker", "numbers"},
     extent : {"exact", "wide"}]

GoodTop == [a1 |-> Str("Instrument:"), b1 |-> Str("Reader 1"), stray |-> "none",
            header |-> "ok", extent |-> "exact"]

AllRowOk == [r \in 1..(TnsRows - 3) |-> RowOk]

TnsSheets == {Sheet(v, AllRowOk) : v \in TopVariants}
             \cup {Sheet(GoodTop, g) : g \in DataGrids}

(***************************************************************************)
(* Zeta Potential input files.                                             *)
(***************************************************************************)
REQUIRED_COLUMNS == <<"Measurement Type", "Sample Name", "Zeta Potential (mV)">>

CONTROL_NAME == "STD 1"

EXPECTED_COUNT == 3

\* The sample names of the inputs, in ascending (byte-wise) string order,
\* the order polars sorts them in.
SampleNames == <<"S1", "STD 1", "STD 10">>

Rank(name) == CHOOSE i \in 1..Len(SampleNames) : SampleNames[i] = name

StrLess(a, b) == Rank(a) < Rank(b)

ZRow(mt, name, zp) == [mt |-> mt, name |-> Str(name), zp |-> zp]

\* One CSV row per value for the sample `name`.
Block(name, zps) ==
    [i \in 1..Len(zps) |-> ZRow(Str("Zeta"), name, Num(zps[i]))]

StdBlocks ==
    { <<>>,
      Block("STD 1", <<-50, -50, -50>>),
      Block("STD 1", <<-49>>) \o <<ZRow(None, "STD 1", Num(1000))>>
          \o Block("STD 1", <<-51>>),
      Block("STD 1", <<5, -5>>) }

S1Blocks ==
    { <<>>,
      Block("S1", <<-60, -61, -59>>),
      Block("S1", <<60, 61, 59>>),
      Block("S1", <<0, 0, 0>>),
      Block("S1", <<-60, -60>>) }

S10Blocks ==
    { <<>>,
      Block("STD 10", <<-25, -25>>) \o <<ZRow(Str("Zeta"), "STD 10", None)>>
          \o Block("STD 10", <<-25>>),
      Block("STD 10", <<10, 20, 30, 40>>) }

\* The CSV tables: the rows of "STD 10", of "S1" and of the control, in
\* that order.
ZetaTables ==
    {[columns |-> REQUIRED_COLUMNS \o <<"Comment">>, rows |-> c \o a \o s] :
        c \in S10Blocks, a \in S1Blocks, s \in StdBlocks}
    \cup {[columns |-> <<"Measurement Type", "Sample Name">>,
           rows |-> Block("S1", <<-60, -61, -59>>) \o Block("STD 1", <<-50, -50, -50>>)]}

(***************************************************************************)
(* The files that can be handed to parse_file.  probe tells what the text  *)
(* decoder meets in the file:                                              *)
(*   "text"        every byte decodes;                                     *)
(*   "bad prefix"  an invalid sequence within the leading 1024 characters; *)
(*   "bad chunk"   the leading 1024 characters decode, an invalid sequence *)
(*                 follows within the first chunk the text layer reads     *)
(*                 (8192 bytes);                                           *)
(*   "bad tail"    the first chunk decodes, an invalid sequence follows    *)
(*                 later;                                                  *)
(*   "unreadable"  the file cannot be opened or read.                      *)
(* sheet is the active worksheet of a workbook (<<>> when the file is not  *)
(* a workbook), table the CSV table of a file that decodes, ext the        *)
(* extension of the file's name.                                           *)
(***************************************************************************)
NoTable == [columns |-> <<>>, rows |-> <<>>]

Probes == {"text", "bad prefix", "bad chunk", "bad tail", "unreadable"}

\* Files that are neither a workbook nor a CSV that decodes, and a file
\* that cannot be opened.
BrokenFiles ==
    {[probe |-> p, sheet |-> <<>>, table |-> NoTable, ext |-> x] :
        p \in Probes \ {"text"}, x \in {".xlsx", ".csv"}}

Files == {[probe |-> "bad prefix", sheet |-> g, table |-> NoTable,
           ext |-> ".xlsx"] : g \in TnsSheets}
         \cup {[probe |-> "text", sheet |-> <<>>, table |-> t, ext |-> ".csv"] :
                  t \in ZetaTables}
         \cup BrokenFiles

\* The files of the runs that call parse_file repeatedly on the same file.
RepeatGrid(a, b) ==
    [r \in 1..(TnsRows - 3) |-> IF r = 1 THEN a ELSE IF r = 4 THEN b ELSE RowOk]

RepeatSheets ==
    { Sheet(GoodTop, AllRowOk),
      Sheet(GoodTop, RepeatGrid(RowOk2, RowLow1)),
      Sheet(GoodTop, RepeatGrid(RowZero, RowOk)),
      Sheet([GoodTop EXCEPT !.extent = "wide"], AllRowOk) }

RepeatRows ==
    { Block("S1", <<-60, -61, -59>>) \o Block("STD 1", <<-50, -50, -50>>),
      Block("S1", <<0, 0, 0>>) \o Block("STD 1", <<5, -5>>),
      Block("STD 10", <<10, 20, 30, 40>>) \o Block("S1", <<60, 61, 59>>)
          \o Block("STD 1", <<-50, -50, -50>>),
      Block("S1", <<60, 61, 59>>) }

RepeatFiles ==
    {f \in Files :
        \/ f.sheet \in RepeatSheets
        \/ f.table.rows \in RepeatRows
        \/ f.sheet = <<>> /\ f.table = NoTable /\ f.ext = ".csv"
              /\ f.probe \in {"bad chunk", "unreadable"}}

NoFile == [probe |-> "unreadable", sheet |-> <<>>, table |-> NoTable, ext |-> ""]

(***************************************************************************)
(* Exceptions.                                                             *)
(***************************************************************************)
NoError == [type |-> "", msg |-> "", name |-> "", count |-> 0, value |-> FNull]

\* Mutant of ResultsParsingError: a separate exception class for a rejected
\* value.
ValueOutOfRangeError(msg, name, count, value) ==
    [type |-> IF value = FNull THEN "ResultsParsingError" ELSE "ValueOutOfRange",
     msg |-> msg, name |-> name, count |-> count, value |-> value]

\* raise ResultsParsingError(msg), with the names and numbers formatted
\* into the message.
ResultsParsingError(msg, name, count, value) ==
    [type |-> "ResultsParsingError", msg |-> msg, name |-> name,
     count |-> count, value |-> value]

\* An exception raised by the interpreter or a library.
OtherError(type) ==
    [type |-> type, msg |-> "", name |-> "", count |-> 0, value |-> FNull]

\* A request to /upload-new-results: the module that serves it ("app" is
\* src/app/__main__.py, "root" is src/__main__.py), the method, and
\* request.files.get("file"): upload is "none" when there is no such part,
\* else the kind of its filename ("empty": no filename, "plain": a bare
\* name, "nested": a name with a directory that upload_dir does not have),
\* and file is the content sent.
NoRequest == [app |-> "app", method |-> "GET", upload |-> "none", file |-> NoFile]

\* The contents that can be uploaded: an uploaded file can be read.
UploadFiles == {f \in RepeatFiles : f.probe # "unreadable"}

Requests ==
    {[app |-> a, method |-> "GET", upload |-> "none", file |-> NoFile] :
        a \in {"app", "root"}}
    \cup {[app |-> a, method |-> "POST", upload |-> "none", file |-> NoFile] :
             a \in {"app", "root"}}
    \cup {[app |-> a, method |-> "POST", upload |-> u, file |-> f] :
             a \in {"app", "root"}, u \in {"empty", "plain", "nested"},
             f \in UploadFiles}

\* No earlier call is remembered.
NoOutcome == [file |-> NoFile, pc |-> "idle", ret |-> <<>>, err |-> NoError]

(***************************************************************************)
(* State.                                                                  *)
(***************************************************************************)
VARIABLES
    pc,                 \* position in the current parse_file call
    calls,              \* number of parse_file calls started
    file,               \* the file named by `filename`
    type,               \* parse_file: the detected type
    df,                 \* the data frame of the running parser
    row_index,          \* parse_tns_results: next row of df.iter_rows()
    tri,                \* parse_tns_results: position in triple_start_indexes
    control_value,
    aggregated,         \* parse_tns_results: results accepted so far
    formulation_count,
    as_tuples,          \* parse_zeta_potential_results: the computed results
    ret,                \* the list returned by the call
    err,                \* the exception raised by the call
    db,                 \* the rows of the results table
    db_at_call,         \* history: the results table when the call started
    first,              \* history: an earlier call, its file and its outcome
    request,            \* upload_new_results: the request being served
    hpc,                \* upload_new_results: position in the handler
    requests,           \* number of requests received
    results,            \* upload_new_results: <<>> is None, else <<the list>>
    error_message,      \* upload_new_results: <<>> is None, else <<the text>>
    uploads,            \* the files in upload_dir, by the uuid in their name
    response            \* what the request was answered with

\* The state of the web application.
handler == <<request, hpc, requests, results, error_message, uploads, response>>

vars == <<pc, calls, file, type, df, row_index, tri, control_value, aggregated,
          formulation_count, as_tuples, ret, err, db, db_at_call, first, handler>>

locals == <<df, row_index, tri, control_value, aggregated, formulation_count,
            as_tuples>>

Init ==
    /\ pc = "idle"
    /\ calls = 0
    /\ file = NoFile
    /\ type = "None"
    /\ df = <<>>
    /\ row_index = 0
    /\ tri = 0
    /\ control_value = FNull
    /\ aggregated = <<>>
    /\ formulation_count = 0
    /\ as_tuples = <<>>
    /\ ret = <<>>
    /\ err = NoError
    /\ db = <<>>
    /\ db_at_call = <<>>
    /\ first = NoOutcome
    /\ request = NoRequest
    /\ hpc = "ready"
    /\ requests = 0
    /\ results = <<>>
    /\ error_message = <<>>
    /\ uploads = {}
    /\ response = ""

\* Mutant of Raise: the records accepted so far are inserted before the
\* exception leaves the parser.
RaiseAfterInsert(e) ==
    /\ pc' = "raised"
    /\ err' = e
    /\ db' = db \o [i \in 1..Len(aggregated) |->
                      [experiment_type |-> type,
                       formulation_id |-> aggregated[i][1],
                       calculated_value |-> aggregated[i][2]]]
    /\ UNCHANGED ret

\* The call ends by raising e.
Raise(e) ==
    /\ pc' = "raised"
    /\ err' = e
    /\ UNCHANGED <<ret, db>>

\* REAL column: SQLite stores a NaN as NULL.
ToReal(v) == IF v.cls = "nan" THEN FNull ELSE v

\* cursor.executemany("INSERT INTO results ... VALUES(<experiment_type>, ?, ?)",
\* records); connection.commit()
InsertAll(table, experiment_type, records) ==
    table \o [i \in 1..Len(records) |->
                [experiment_type |-> experiment_type,
                 formulation_id |-> records[i][1],
                 calculated_value |-> ToReal(records[i][2])]]

(***************************************************************************)
(* parse_file: probe the file and choose the parser.                       *)
(***************************************************************************)
\* with open(filename, newline='') as f: f.read(1024).  The text layer
\* decodes the whole first chunk it reads, not only the 1024 characters
\* asked for: "" when the block completes, else the exception it raises.
ProbeError(f) ==
    CASE f.probe = "unreadable"                 -> "OSError"
      [] f.probe \in {"bad prefix", "bad chunk"} -> "UnicodeDecodeError"
      [] OTHER                                  -> ""

\* The value of `type` after the try statement; an exception other than
\* UnicodeDecodeError is not caught.
DetectType(f) ==
    CASE ProbeError(f) = ""                   -> "ZETA_POTENTIAL"
      [] ProbeError(f) = "UnicodeDecodeError" -> "TNS"
      [] OTHER                                -> "None"

parse_file(f) ==
    /\ pc \in {"idle", "returned", "raised"}
    /\ calls' = calls + 1
    /\ file' = f
    /\ type' = DetectType(f)
    /\ pc' = CASE ProbeError(f) \notin {"", "UnicodeDecodeError"} -> "raised"
              [] type' = "TNS"            -> "tns_load"
              [] type' = "ZETA_POTENTIAL" -> "zeta_read"
              [] OTHER                    -> "raised"
    /\ df' = <<>>
    /\ row_index' = 0
    /\ tri' = 0
    /\ control_value' = FNull
    /\ aggregated' = <<>>
    /\ formulation_count' = 0
    /\ as_tuples' = <<>>
    /\ ret' = <<>>
    /\ err' = CASE ProbeError(f) \notin {"", "UnicodeDecodeError"}
                   -> OtherError(ProbeError(f))
                [] type' \in {"TNS", "ZETA_POTENTIAL"} -> NoError
                [] OTHER -> ResultsParsingError("filetype", "", 0, FNull)
    /\ db_at_call' = db
    /\ UNCHANGED db

\* A call of parse_file.
ParseFile(f) ==
    /\ calls < MaxCalls
    /\ parse_file(f)
    /\ UNCHANGED <<first, handler>>

\* A call of parse_file; the call that just ended may be remembered, to be
\* compared with later calls on the same file.
ParseFileAgain(f) ==
    /\ calls < MaxRepeats
    /\ parse_file(f)
    /\ \/ UNCHANGED first
       \/ /\ first = NoOutcome
          /\ pc \in {"returned", "raised"}
          /\ first' = [file |-> file, pc |-> pc, ret |-> ret, err |-> err]
    /\ UNCHANGED handler

(***************************************************************************)
(* parse_tns_results                                                       *)
(***************************************************************************)
\* ws.dimensions of a sheet whose occupied cells start at A1.
Dimensions(data) ==
    "A1:" \o ColumnLetters[Len(data[1])] \o ToString(Len(data))

\* Mutant of TnsStructureError: only row 1 is checked for stray cells.
TnsStructureErrorRow1Only(data) ==
    CASE Dimensions(data) # "A1:M11"    -> "extent"
      [] data[1][1] # Str("Instrument:") -> "instrument label"
      [] ~Truthy(data[1][2])            -> "instrument name"
      [] AnyTruthy(Slice(data[1], 2, Len(data[1])))
                                        -> "cells not empty"
      [] data[3][1] # Str("<>")         -> "start marker"
      [] data[3] # TNS_HEADER           -> "header row"
      [] OTHER                          -> ""

\* The structural checks, in order: the message of the first that fails,
\* "" when all pass.
TnsStructureError(data) ==
    CASE Dimensions(data) # "A1:M11"    -> "extent"
      [] data[1][1] # Str("Instrument:") -> "instrument label"
      [] ~Truthy(data[1][2])            -> "instrument name"
      [] AnyTruthy(Slice(data[1], 2, Len(data[1])) \o data[2])
                                        -> "cells not empty"
      [] data[3][1] # Str("<>")         -> "start marker"
      [] data[3] # TNS_HEADER           -> "header row"
      [] OTHER                          -> ""

\* The file name extensions load_workbook accepts.
SUPPORTED_FORMATS == {".xlsx", ".xlsm", ".xltx", ".xltm"}

\* load_workbook(filename): InvalidFileException for a name with another
\* extension, BadZipFile for a file that is not a zip archive; "" when the
\* workbook loads.
LoadError(f) ==
    CASE f.ext \notin SUPPORTED_FORMATS -> "InvalidFileException"
      [] f.sheet = <<>>                 -> "BadZipFile"
      [] OTHER                          -> ""

\* Mutant of TnsValidate: the formulations are numbered on from the rows
\* already in the results table.
TnsValidateCountFromTable ==
    /\ pc = "tns_load"
    /\ LET data == file.sheet
           bad  == IF LoadError(file) # "" THEN "" ELSE TnsStructureError(data)
       IN  IF LoadError(file) # ""
           THEN /\ Raise(OtherError(LoadError(file)))
                /\ UNCHANGED locals
           ELSE IF bad # ""
           THEN /\ Raise(ResultsParsingError(bad, "", 0, FNull))
                /\ UNCHANGED locals
           ELSE /\ df' = Slice(data, 3, Len(data))
                /\ aggregated' = <<>>
                /\ formulation_count' = Len(db) + 1
                /\ row_index' = 1
                /\ pc' = "tns_row"
                /\ UNCHANGED <<tri, control_value, as_tuples, ret, err, db>>
    /\ UNCHANGED <<calls, file, type, db_at_call, first, handler>>

TnsValidate ==
    /\ pc = "tns_load"
    /\ LET data == file.sheet
           bad  == IF LoadError(file) # "" THEN "" ELSE TnsStructureError(data)
       IN  IF LoadError(file) # ""
           THEN /\ Raise(OtherError(LoadError(file)))
                /\ UNCHANGED locals
           ELSE IF bad # ""
           THEN /\ Raise(ResultsParsingError(bad, "", 0, FNull))
                /\ UNCHANGED locals
           ELSE /\ df' = Slice(data, 3, Len(data))
                /\ aggregated' = <<>>
                /\ formulation_count' = 1
                /\ row_index' = 1
                /\ pc' = "tns_row"
                /\ UNCHANGED <<tri, control_value, as_tuples, ret, err, db>>
    /\ UNCHANGED <<calls, file, type, db_at_call, first, handler>>

\* The head of `for row in df.iter_rows()`: the control of the next row,
\* or the end of the loop.
TnsRow ==
    /\ pc = "tns_row"
    /\ IF row_index > Len(df)
       THEN /\ pc' = "tns_store"
            /\ UNCHANGED <<control_value, tri>>
       ELSE /\ control_value' = Mean(Slice(df[row_index], 10, Len(df[row_index])))
            /\ tri' = 1
            /\ pc' = "tns_triplicate"
    /\ UNCHANGED <<calls, file, type, df, row_index, aggregated,
                   formulation_count, as_tuples, ret, err, db, db_at_call, first, handler>>

\* Mutant of FormulationId: ids numbered from 0.
FormulationIdFromZero(n) == "formulation_" \o ToString(n - 1)

FormulationId(n) == "formulation_" \o ToString(n)

\* mean(row[start_index:start_index + 3]) / control_value
TriplicateValue(row, start_index, control) ==
    FDiv(Mean(Slice(row, start_index, start_index + 3)), control)

\* The body of `for start_index in triple_start_indexes`.
TnsTriplicate ==
    /\ pc = "tns_triplicate"
    /\ LET row   == df[row_index]
           value == TriplicateValue(row, triple_start_indexes[tri], control_value)
       IN  IF control_value.cls = "zero"
           THEN /\ Raise(OtherError("ZeroDivisionError"))
                /\ UNCHANGED <<aggregated, formulation_count, tri, row_index>>
           ELSE IF FLess(value, FromInt(THRESHOLD))
           THEN /\ Raise(ResultsParsingError("less than 10",
                             FormulationId(formulation_count), 0, value))
                /\ UNCHANGED <<aggregated, formulation_count, tri, row_index>>
           ELSE /\ aggregated' = Append(aggregated,
                                   <<FormulationId(formulation_count), value>>)
                /\ formulation_count' = formulation_count + 1
                /\ IF tri < Len(triple_start_indexes)
                   THEN /\ tri' = tri + 1
                        /\ pc' = "tns_triplicate"
                        /\ UNCHANGED row_index
                   ELSE /\ row_index' = row_index + 1
                        /\ pc' = "tns_row"
                        /\ UNCHANGED tri
                /\ UNCHANGED <<ret, err, db>>
    /\ UNCHANGED <<calls, file, type, df, control_value, as_tuples, db_at_call, first, handler>>

\* Store the results in the database and return them.
TnsStore ==
    /\ pc = "tns_store"
    /\ db' = InsertAll(db, "TNS", aggregated)
    /\ ret' = aggregated
    /\ pc' = "returned"
    /\ UNCHANGED <<calls, file, type, locals, err, db_at_call, first, handler>>

(***************************************************************************)
(* parse_zeta_potential_results                                            *)
(***************************************************************************)
Range(seq) == {seq[i] : i \in 1..Len(seq)}

\* The rows whose index is in keep, in their order.
RECURSIVE Pick(_, _, _)
Pick(rows, keep, i) ==
    IF i > Len(rows) THEN <<>>
    ELSE (IF i \in keep THEN <<rows[i]>> ELSE <<>>) \o Pick(rows, keep, i + 1)

\* Mutant of DropNulls: only a missing measurement drops the row.
DropNullsValueOnly(rows) ==
    Pick(rows, {i \in 1..Len(rows) : rows[i].zp # None}, 1)

\* drop_nulls() on the three selected columns.
DropNulls(rows) ==
    Pick(rows, {i \in 1..Len(rows) :
                  rows[i].mt # None /\ rows[i].name # None /\ rows[i].zp # None}, 1)

\* df.filter(pl.col("Sample Name") == name)
RowsOf(rows, name) ==
    Pick(rows, {i \in 1..Len(rows) : rows[i].name = Str(name)}, 1)

\* df.filter(pl.col("Sample Name") != name)
RowsNotOf(rows, name) ==
    Pick(rows, {i \in 1..Len(rows) : rows[i].name # Str(name)}, 1)

ZpCells(rows) == [i \in 1..Len(rows) |-> rows[i].zp]

\* mean() of the "Zeta Potential (mV)" column: null for an empty frame.
ColumnMean(rows) == IF rows = <<>> THEN FNull ELSE Mean(ZpCells(rows))

\* x / y on polars values: null when either is null.
NullableDiv(x, y) ==
    IF x.cls = "null" \/ y.cls = "null" THEN FNull ELSE FDiv(x, y)

\* The distinct sample names of the frame, sorted ascending.
RECURSIVE SortNames(_)
SortNames(names) ==
    IF names = {} THEN <<>>
    ELSE LET least == CHOOSE a \in names : \A b \in names \ {a} : StrLess(a, b)
         IN  <<least>> \o SortNames(names \ {least})

GroupNames(rows) == SortNames({rows[i].name.s : i \in 1..Len(rows)})

\* Mutant of GroupCounts: sorted descending.
GroupCountsDescending(rows) ==
    LET names == GroupNames(rows)
        k     == Len(names)
    IN  [i \in 1..k |-> <<names[k + 1 - i], Len(RowsOf(rows, names[k + 1 - i]))>>]

\* group_by("Sample Name").len().sort("Sample Name")
GroupCounts(rows) ==
    LET names == GroupNames(rows)
    IN  [i \in 1..Len(names) |-> <<names[i], Len(RowsOf(rows, names[i]))>>]

\* The first of the iterations `hits` of a loop, 0 when there is none.
FirstIndex(hits) ==
    IF hits = {} THEN 0 ELSE CHOOSE i \in hits : \A j \in hits : i <= j

\* pl.read_csv(filename).select([...]).drop_nulls(); read_csv raises
\* ComputeError on bytes that are not UTF-8, select raises
\* ColumnNotFoundError on a missing column.
ZetaRead ==
    /\ pc = "zeta_read"
    /\ IF file.probe # "text"
       THEN /\ Raise(OtherError("ComputeError"))
            /\ UNCHANGED df
       ELSE IF \E i \in 1..Len(REQUIRED_COLUMNS) :
              REQUIRED_COLUMNS[i] \notin Range(file.table.columns)
       THEN /\ Raise(OtherError("ColumnNotFoundError"))
            /\ UNCHANGED df
       ELSE /\ df' = DropNulls(file.table.rows)
            /\ pc' = "zeta_control"
            /\ UNCHANGED <<ret, err, db>>
    /\ UNCHANGED <<calls, file, type, row_index, tri, control_value, aggregated,
                   formulation_count, as_tuples, db_at_call, first, handler>>

\* Extract the control value and remove the control measurements.
ZetaControl ==
    /\ pc = "zeta_control"
    /\ control_value' = ColumnMean(RowsOf(df, CONTROL_NAME))
    /\ df' = RowsNotOf(df, CONTROL_NAME)
    /\ pc' = "zeta_counts"
    /\ UNCHANGED <<calls, file, type, row_index, tri, aggregated,
                   formulation_count, as_tuples, ret, err, db, db_at_call, first, handler>>

\* Validate measurement counts.
ZetaCounts ==
    /\ pc = "zeta_counts"
    /\ LET counts == GroupCounts(df)
           i == FirstIndex({j \in 1..Len(counts) : counts[j][2] # EXPECTED_COUNT})
       IN  IF i # 0
           THEN Raise(ResultsParsingError("expected 3 values",
                                          counts[i][1], counts[i][2], FNull))
           ELSE /\ pc' = "zeta_agg"
                /\ UNCHANGED <<ret, err, db>>
    /\ UNCHANGED <<calls, file, type, locals, db_at_call, first, handler>>

\* The normalised mean of one sample.
NormalizedMean(rows, name, control) ==
    NullableDiv(ColumnMean(RowsOf(rows, name)), control)

\* Calculate normalized results, sorted by formulation_id.
ZetaAgg ==
    /\ pc = "zeta_agg"
    /\ LET names == GroupNames(df)
       IN  as_tuples' = [i \in 1..Len(names) |->
                           <<names[i], NormalizedMean(df, names[i], control_value)>>]
    /\ pc' = "zeta_check"
    /\ UNCHANGED <<calls, file, type, df, row_index, tri, control_value,
                   aggregated, formulation_count, ret, err, db, db_at_call, first, handler>>

\* Validate results: `calculated_value < 0` raises TypeError on None.
ZetaCheck ==
    /\ pc = "zeta_check"
    /\ LET i == FirstIndex({j \in 1..Len(as_tuples) :
                               \/ as_tuples[j][2].cls = "null"
                               \/ FLess(as_tuples[j][2], FromInt(0))})
       IN  IF i = 0
           THEN /\ pc' = "zeta_store"
                /\ UNCHANGED <<ret, err, db>>
           ELSE IF as_tuples[i][2].cls = "null"
           THEN Raise(OtherError("TypeError"))
           ELSE Raise(ResultsParsingError("should all be positive",
                                          as_tuples[i][1], 0, as_tuples[i][2]))
    /\ UNCHANGED <<calls, file, type, locals, db_at_call, first, handler>>

\* Store the results in the database and return them.
ZetaStore ==
    /\ pc = "zeta_store"
    /\ db' = InsertAll(db, "ZETA_POTENTIAL", as_tuples)
    /\ ret' = as_tuples
    /\ pc' = "returned"
    /\ UNCHANGED <<calls, file, type, locals, err, db_at_call, first, handler>>

(***************************************************************************)
(* upload_new_results                                                      *)
(***************************************************************************)
parser == <<pc, calls, file, type, locals, ret, err, db, db_at_call, first>>

\* Mutant of HasFile: the test `if file:` is missing.
HasFileAnyPost(req) == req.method = "POST"

\* `request.method == "POST"` and `if file:`; a FileStorage without a
\* filename is falsy.
HasFile(req) == req.method = "POST" /\ req.upload \notin {"none", "empty"}

\* render_template("upload.html", results=results, error_message=error_message)
Rendered == "200 upload.html"

\* The request arrives: results and error_message are None; without a file
\* the page is rendered at once, with one the name of the temporary file is
\* made from a fresh uuid and upload_dir is created.
UploadRequest(req) ==
    /\ hpc \in {"ready", "responded"}
    /\ requests < MaxRequests
    /\ requests' = requests + 1
    /\ request' = req
    /\ results' = <<>>
    /\ error_message' = <<>>
    /\ IF HasFile(req)
       THEN /\ hpc' = "save"
            /\ response' = ""
       ELSE /\ hpc' = "responded"
            /\ response' = Rendered
    /\ UNCHANGED <<uploads, parser>>

\* The finally clause when filepath does not exist: "app" tests
\* os.path.exists(filepath) first, "root" calls os.remove(filepath), whose
\* FileNotFoundError leaves the handler.
FinallyWithoutFile(app) == IF app = "app" THEN Rendered ELSE "500"

\* file.save(filepath): fails when the directory of filepath is missing.
UploadSave ==
    /\ hpc = "save"
    /\ IF request.upload = "nested"
       THEN /\ error_message' = <<"FileNotFoundError">>
            /\ response' = FinallyWithoutFile(request.app)
            /\ hpc' = "responded"
            /\ UNCHANGED uploads
       ELSE /\ uploads' = uploads \cup {requests}
            /\ hpc' = "parse"
            /\ UNCHANGED <<error_message, response>>
    /\ UNCHANGED <<request, requests, results, parser>>

\* results_parsers.parse_file(filepath, upload_timestamp) is called.
UploadParse ==
    /\ hpc = "parse"
    /\ parse_file(request.file)
    /\ hpc' = "parsing"
    /\ UNCHANGED <<first, request, requests, results, error_message, uploads,
                   response>>

\* parse_file has returned or raised: results or error_message is set, the
\* temporary file is removed and the page is rendered.
UploadRespond ==
    /\ hpc = "parsing"
    /\ pc \in {"returned", "raised"}
    /\ IF pc = "returned"
       THEN /\ results' = <<ret>>
            /\ UNCHANGED error_message
       ELSE /\ error_message' = <<err.type>>
            /\ UNCHANGED results
    /\ uploads' = uploads \ {requests}
    /\ response' = Rendered
    /\ hpc' = "responded"
    /\ UNCHANGED <<request, requests, parser>>

(***************************************************************************)
(* Specification.                                                          *)
(***************************************************************************)
Next ==
    \/ \E f \in Files : ParseFile(f)
    \/ TnsValidate
    \/ TnsRow
    \/ TnsTriplicate
    \/ TnsStore
    \/ ZetaRead
    \/ ZetaControl
    \/ ZetaCounts
    \/ ZetaAgg
    \/ ZetaCheck
    \/ ZetaStore

Spec == Init /\ [][Next]_vars

\* Runs of a few files parsed again and again, one earlier call remembered.
NextRepeat ==
    \/ \E f \in RepeatFiles : ParseFileAgain(f)
    \/ TnsValidate
    \/ TnsRow
    \/ TnsTriplicate
    \/ TnsStore
    \/ ZetaRead
    \/ ZetaControl
    \/ ZetaCounts
    \/ ZetaAgg
    \/ ZetaCheck
    \/ ZetaStore

SpecRepeat == Init /\ [][NextRepeat]_vars

\* Runs of the web application: requests to /upload-new-results.
NextUpload ==
    \/ \E req \in Requests : UploadRequest(req)
    \/ UploadSave
    \/ UploadParse
    \/ UploadRespond
    \/ TnsValidate
    \/ TnsRow
    \/ TnsTriplicate
    \/ TnsStore
    \/ ZetaRead
    \/ ZetaControl
    \/ ZetaCounts
    \/ ZetaAgg
    \/ ZetaCheck
    \/ ZetaStore

SpecUpload == Init /\ [][NextUpload]_vars

(***************************************************************************)
(* The properties.  The definitions below read the input file directly,    *)
(* not the parser's variables.                                             *)
(***************************************************************************)
Finished == pc \in {"returned", "raised"}

DataRows == 1..(TnsRows - 3)

\* Measurement column c (1..12) of data row r (1..8) of the sheet.
CellAt(r, c) == file.sheet[r + 3][c + 1].n

TripletSum(r, s) == CellAt(r, s) + CellAt(r, s + 1) + CellAt(r, s + 2)

ControlSum(r) == CellAt(r, 10) + CellAt(r, 11) + CellAt(r, 12)

Third(n) == FDiv(FromInt(n), FromInt(3))

\* mean(columns s, s+1, s+2) / mean(columns 10, 11, 12) of data row r.
ExpectedValue(r, s) == FDiv(Third(TripletSum(r, s)), Third(ControlSum(r)))

\* The file is a workbook: load_workbook returns its active sheet.
IsWorkbook == file.sheet # <<>> /\ file.ext \in SUPPORTED_FORMATS

\* The structural conditions on a TNS sheet.
StructurallyValid ==
    LET sh == file.sheet
    IN  /\ Len(sh) = 11
        /\ \A r \in 1..Len(sh) : Len(sh[r]) = 13
        /\ sh[1][1] = Str("Instrument:")
        /\ Truthy(sh[1][2])
        /\ \A c \in 3..13 : ~Truthy(sh[1][c])
        /\ \A c \in 1..13 : ~Truthy(sh[2][c])
        /\ sh[3][1] = Str("<>")
        /\ \A c \in 1..12 : sh[3][c + 1] = Num(c)

\* The triplicates as <<data row, start column>>, in row-major order.
Triplicates == {<<r, s>> : r \in DataRows, s \in {1, 4, 7}}

\* Position (1..24) of a triplicate in row-major order.
Position(t) == 3 * (t[1] - 1) + (t[2] - 1) \div 3 + 1

Defined(t) == ControlSum(t[1]) # 0

Below(t) == Defined(t) /\ FLess(ExpectedValue(t[1], t[2]), FromInt(10))

AllMeetThreshold == \A t \in Triplicates : Defined(t) /\ ~Below(t)

\* The rows of the table with their experiment type, as inserted for the
\* records recs.
Tagged(experiment_type, recs) ==
    [i \in 1..Len(recs) |->
       [experiment_type |-> experiment_type, formulation_id |-> recs[i][1],
        calculated_value |-> recs[i][2]]]

\* C1: a call that fails has inserted no row and returned no list; rows are
\* inserted only by a call that returns, and the store step is reached only
\* when every structural check and every value check of the file passed.
C1_NoPartialCommit ==
    /\ (pc = "raised" => db = db_at_call /\ ret = <<>>)
    /\ (pc # "returned" => db = db_at_call)
    /\ (pc = "tns_store" => StructurallyValid /\ AllMeetThreshold
                            /\ Len(aggregated) = 24)
    /\ (pc = "zeta_store" =>
          /\ \A i \in 1..Len(as_tuples) : ~FLess(as_tuples[i][2], FromInt(0))
          /\ \A n \in {df[i].name.s : i \in 1..Len(df)} :
                Cardinality({i \in 1..Len(df) : df[i].name.s = n}) = 3)

\* A TNS call that fails on a value after accepting triplicates, with rows
\* of an earlier call in the table.
C1_Witness ==
    /\ pc = "raised"
    /\ err.msg = "less than 10"
    /\ Len(aggregated) >= 3
    /\ db # <<>>

\* C3: a structurally valid TNS sheet whose 24 values all meet the
\* threshold returns exactly 24 records, the record of triplicate t of data
\* row r at position 3r+t with id formulation_<3r+t+1>.
C3_TnsReturns24InOrder ==
    (type = "TNS" /\ Finished /\ StructurallyValid /\ AllMeetThreshold) =>
        /\ pc = "returned"
        /\ Len(ret) = 24
        /\ \A r \in 0..7, t \in 0..2 :
              ret[3 * r + t + 1] =
                  <<"formulation_" \o ToString(3 * r + t + 1),
                    ExpectedValue(r + 1, 1 + 3 * t)>>

\* A returned TNS result whose rows have different values.
C3_Witness ==
    /\ pc = "returned"
    /\ type = "TNS"
    /\ Len(ret) = 24
    /\ ret[24][1] = "formulation_24"
    /\ ret[11][2] # ret[2][2]

\* C2: the table is the concatenation of the lists returned by the
\* successful calls, each row tagged with the call's experiment type: a
\* call that returns has appended exactly the records it returns, and any
\* other call leaves the table as it was.
C2_TableIsConcatenationOfReturns ==
    /\ (pc = "returned" => db = db_at_call \o Tagged(type, ret))
    /\ (pc # "returned" => db = db_at_call)

\* The triplicate whose record is (or would be) at position i of aggregated.
TriplicateAt(i) == CHOOSE t \in Triplicates : Position(t) = i

\* C4: every accepted value is mean(triplicate) / mean(the same row's
\* columns 10..12), and with a positive control a triplicate is accepted
\* exactly when its sum is at least 10 times the sum of the control cells.
C4_ValueAndAcceptance ==
    (type = "TNS" /\ StructurallyValid /\ pc # "tns_load") =>
        /\ \A i \in 1..Len(aggregated) :
              LET t == TriplicateAt(i)
              IN  /\ aggregated[i][2] = ExpectedValue(t[1], t[2])
                  /\ TripletSum(t[1], t[2]) >= 10 * ControlSum(t[1])
        /\ (pc = "raised" /\ err.msg = "less than 10") =>
              LET t == TriplicateAt(Len(aggregated) + 1)
              IN  TripletSum(t[1], t[2]) < 10 * ControlSum(t[1])

\* The first triplicate, in row-major order, whose value is below 10.
FirstBelow ==
    LET below == {t \in Triplicates : Below(t)}
    IN  CHOOSE t \in below : \A u \in below : Position(t) <= Position(u)

\* C5: a structurally valid sheet with a value below 10 fails, the error
\* names the first such triplicate, and nothing is returned or inserted.
C5_FirstViolationNamed ==
    (type = "TNS" /\ Finished /\ StructurallyValid
       /\ \E t \in Triplicates : Below(t)) =>
        /\ pc = "raised"
        /\ err.name = "formulation_" \o ToString(Position(FirstBelow))
        /\ ret = <<>>
        /\ db = db_at_call

(***************************************************************************)
(* The Zeta Potential table of the input file, read directly.              *)
(***************************************************************************)
HasColumns ==
    \A i \in 1..Len(REQUIRED_COLUMNS) :
        \E j \in 1..Len(file.table.columns) :
            file.table.columns[j] = REQUIRED_COLUMNS[i]

\* The rows with a value in each of the three columns.
CompleteRows ==
    {i \in 1..Len(file.table.rows) :
        /\ file.table.rows[i].mt.k # "none"
        /\ file.table.rows[i].name.k # "none"
        /\ file.table.rows[i].zp.k # "none"}

RowsNamed(n) == {i \in CompleteRows : file.table.rows[i].name.s = n}

\* The non-control sample names.
ZNames == {file.table.rows[i].name.s : i \in CompleteRows} \ {"STD 1"}

ZCount(n) == Cardinality(RowsNamed(n))

RECURSIVE ZSumOver(_)
ZSumOver(rs) ==
    IF rs = {} THEN 0
    ELSE LET i == CHOOSE j \in rs : TRUE
         IN  file.table.rows[i].zp.n + ZSumOver(rs \ {i})

\* The mean of the values of sample n.
ZMean(n) == FDiv(FromInt(ZSumOver(RowsNamed(n))), FromInt(ZCount(n)))

HasControl == ZCount("STD 1") > 0

\* The normalised mean of sample n.
ZValue(n) == FDiv(ZMean(n), ZMean("STD 1"))

Negative(v) == FLess(v, FromInt(0))

NonNegative(v) == v.cls # "nan" /\ ~Negative(v)

AllCountsThree == \A n \in ZNames : ZCount(n) = 3

\* The first triplicate is below 10 and no row up to its row has a zero
\* control: the parse reaches it.
ReachesFirstBelow ==
    /\ \E t \in Triplicates : Below(t)
    /\ LET fb == FirstBelow
       IN  \A r \in DataRows : r <= fb[1] => ControlSum(r) # 0

\* C6 as stated: a rejected value is reported with the kind ValueOutOfRange,
\* a structural violation with the kind FormatError.
C6_ValueOutOfRangeKind ==
    pc = "raised" =>
        /\ (type = "TNS" /\ StructurallyValid /\ ReachesFirstBelow)
              => err.type = "ValueOutOfRange"
        /\ (type = "ZETA_POTENTIAL" /\ HasColumns /\ HasControl /\ AllCountsThree
              /\ \E n \in ZNames : Negative(ZValue(n)))
              => err.type = "ValueOutOfRange"
        /\ (type = "TNS" /\ IsWorkbook /\ ~StructurallyValid)
              => err.type = "FormatError"

\* C6 amended: a rejected value (TNS below 10, Zeta below 0) is raised as a
\* ResultsParsingError, the class also raised for the structural violations
\* (extent, labels, stray cells, header, replicate count); only the message
\* tells them apart, and for a value it carries the name and the value.
C6_ValueErrorsAreResultsParsingErrors ==
    pc = "raised" =>
        /\ (type = "TNS" /\ StructurallyValid /\ ReachesFirstBelow) =>
              /\ err.type = "ResultsParsingError"
              /\ err.msg = "less than 10"
              /\ LET fb == FirstBelow
                 IN  err.value = ExpectedValue(fb[1], fb[2])
        /\ (type = "ZETA_POTENTIAL" /\ HasColumns /\ HasControl /\ AllCountsThree
              /\ \E n \in ZNames : Negative(ZValue(n))) =>
              /\ err.type = "ResultsParsingError"
              /\ err.msg = "should all be positive"
              /\ err.name \in ZNames
              /\ err.value = ZValue(err.name)
        /\ (type = "TNS" /\ IsWorkbook /\ ~StructurallyValid) =>
              /\ err.type = "ResultsParsingError"
              /\ err.msg \notin {"less than 10", "should all be positive"}
              /\ err.value = FNull
        /\ (type = "ZETA_POTENTIAL" /\ HasColumns /\ ~AllCountsThree) =>
              /\ err.type = "ResultsParsingError"
              /\ err.msg = "expected 3 values"
              /\ err.value = FNull

\* A Zeta call rejected for a negative normalised mean.
C6_Witness ==
    /\ pc = "raised"
    /\ type = "ZETA_POTENTIAL"
    /\ err.type = "ResultsParsingError"
    /\ err.name = "S1"
    /\ Negative(err.value)

\* C7: a TNS sheet reaches the per-row computation exactly when its extent
\* is A1:M11, A1 is "Instrument:", B1 is truthy, C1..M1 and row 2 are falsy
\* and row 3 is the header; any other sheet is rejected with a parsing error
\* before a value is computed.
C7_StructuralValidation ==
    (type = "TNS" /\ IsWorkbook /\ pc # "tns_load") =>
        /\ StructurallyValid <=> Len(df) = 8
        /\ ~StructurallyValid =>
              /\ pc = "raised"
              /\ err.type = "ResultsParsingError"
              /\ control_value = FNull
              /\ aggregated = <<>>

\* A sheet of extent A1:N11 rejected for its extent.
C7_Witness ==
    /\ pc = "raised"
    /\ type = "TNS"
    /\ IsWorkbook
    /\ Len(file.sheet[1]) = 14
    /\ err.msg = "extent"

\* The ids of the returned records.
RetIds == {ret[i][1] : i \in 1..Len(ret)}

\* C8: with a control and exactly 3 rows per sample the Zeta parse succeeds
\* exactly when every normalised mean is >= 0; it then returns one record
\* per sample name, named verbatim, sorted ascending by name; otherwise it
\* fails naming a sample whose normalised mean is negative.
C8_ZetaSucceedsIffNonNegative ==
    (type = "ZETA_POTENTIAL" /\ Finished /\ HasColumns /\ HasControl
       /\ AllCountsThree) =>
        IF \A n \in ZNames : NonNegative(ZValue(n))
        THEN /\ pc = "returned"
             /\ Len(ret) = Cardinality(ZNames)
             /\ RetIds = ZNames
             /\ \A i \in 1..Len(ret), j \in 1..Len(ret) :
                   i < j => StrLess(ret[i][1], ret[j][1])
        ELSE /\ pc = "raised"
             /\ err.name \in ZNames
             /\ Negative(ZValue(err.name))

\* C9: the control is the mean of exactly the complete rows named "STD 1",
\* every returned value is mean(the sample's values) / control, and "STD 1"
\* is never a formulation_id of a returned or stored record.
C9_ControlAndNormalisation ==
    /\ (type = "ZETA_POTENTIAL" /\ HasColumns
          /\ pc \notin {"zeta_read", "zeta_control"}) =>
          /\ control_value = IF HasControl THEN ZMean("STD 1") ELSE FNull
          /\ pc = "returned" =>
                \A i \in 1..Len(ret) :
                    /\ ret[i][1] # "STD 1"
                    /\ ret[i][2] = ZValue(ret[i][1])
    /\ \A i \in 1..Len(db) : db[i].formulation_id # "STD 1"

\* S1 averaging -60 over a control averaging -50 is returned as 1.2; the
\* control is taken from a file that also has an incomplete "STD 1" row.
C9_Witness ==
    /\ pc = "returned"
    /\ type = "ZETA_POTENTIAL"
    /\ control_value = FromInt(-50)
    /\ \E i \in 1..Len(file.table.rows) :
          /\ file.table.rows[i].name = Str("STD 1")
          /\ i \notin CompleteRows
    /\ \E i \in 1..Len(ret) : ret[i] = <<"S1", FDiv(FromInt(6), FromInt(5))>>

\* The samples whose number of complete rows is not 3.
Offending == {n \in ZNames : ZCount(n) # 3}

\* C10: when some sample has a row count other than 3 the Zeta parse fails
\* with the count error naming the smallest offending name and its count,
\* also when another sample has a negative normalised mean.
C10_ReplicateCountError ==
    (type = "ZETA_POTENTIAL" /\ Finished /\ HasColumns /\ Offending # {}) =>
        /\ pc = "raised"
        /\ err.type = "ResultsParsingError"
        /\ err.msg = "expected 3 values"
        /\ err.name \in Offending
        /\ \A n \in Offending \ {err.name} : StrLess(err.name, n)
        /\ err.count = ZCount(err.name)
        /\ ret = <<>>
        /\ db = db_at_call

\* The count error is raised for "STD 10" although S1, with 3 rows, has a
\* negative normalised mean.
C10_Witness ==
    /\ pc = "raised"
    /\ err.msg = "expected 3 values"
    /\ err.name = "STD 10"
    /\ err.count = 4
    /\ HasControl
    /\ ZCount("S1") = 3
    /\ Negative(ZValue("S1"))

\* No row of the file, complete or not, is named "STD 1".
NoControlRows ==
    \A i \in 1..Len(file.table.rows) : file.table.rows[i].name # Str("STD 1")

\* C11: a Zeta Potential file without any "STD 1" row fails with the
\* parsing error for a missing control sample; nothing is returned or
\* inserted.
C11_MissingControlRejected ==
    (type = "ZETA_POTENTIAL" /\ Finished /\ HasColumns /\ NoControlRows) =>
        /\ pc = "raised"
        /\ err.type = "ResultsParsingError"
        /\ err.msg = "missing control sample"
        /\ ret = <<>>
        /\ db = db_at_call

\* The positions inside each parser.
TnsPcs == {"tns_load", "tns_row", "tns_triplicate", "tns_store"}

ZetaPcs == {"zeta_read", "zeta_control", "zeta_counts", "zeta_agg",
            "zeta_check", "zeta_store"}

\* The leading 1024 characters of the file decode as text.
PrefixDecodes == file.probe \in {"text", "bad chunk", "bad tail"}

\* C12: a file whose leading 1024 characters decode is parsed by
\* parse_zeta_potential_results and never by parse_tns_results, a file with
\* an invalid sequence among them by parse_tns_results and never by
\* parse_zeta_potential_results; bytes after the prefix do not matter.
C12_PrefixDecidesParser ==
    (calls > 0 /\ file.probe # "unreadable") =>
        /\ PrefixDecodes =>
              /\ type = "ZETA_POTENTIAL"
              /\ pc \notin TnsPcs
        /\ ~PrefixDecodes =>
              /\ type = "TNS"
              /\ pc \notin ZetaPcs

\* C13: when the probe fails for a reason other than an invalid byte
\* sequence the call fails with the error "Could not determine filetype!"
\* and neither parser is called.
C13_UnknownFormatError ==
    (calls > 0 /\ file.probe = "unreadable") =>
        /\ pc = "raised"
        /\ err.type = "ResultsParsingError"
        /\ err.msg = "filetype"
        /\ df = <<>>
        /\ ret = <<>>
        /\ db = db_at_call

\* The file is a workbook or a CSV that decodes: what it can violate are
\* the rules of its format.
WellFormedFile == IsWorkbook \/ file.probe = "text"

\* C14: every rejection of a workbook or CSV file is a ResultsParsingError,
\* also for a CSV without one of the required columns and for a TNS row
\* whose control cells are all zero.
C14_RejectionsAreParsingErrors ==
    (pc = "raised" /\ WellFormedFile) => err.type = "ResultsParsingError"

\* v is a defined number: neither NaN nor NULL.
IsNumber(v) == v.cls \notin {"nan", "null"}

\* The acceptance rule of a format on a value.
Acceptable(experiment_type, v) ==
    /\ IsNumber(v)
    /\ experiment_type = "TNS" => ~FLess(v, FromInt(THRESHOLD))
    /\ experiment_type = "ZETA_POTENTIAL" => ~FLess(v, FromInt(0))

\* C15: every record returned by a call or held by the results table has a
\* defined value that meets the acceptance rule of its format, also when a
\* control mean is zero.
C15_RecordsMeetAcceptance ==
    /\ \A i \in 1..Len(ret) : Acceptable(type, ret[i][2])
    /\ \A i \in 1..Len(db) :
          Acceptable(db[i].experiment_type, db[i].calculated_value)

\* A call on the remembered file has ended.
SameFileAgain == Finished /\ first # NoOutcome /\ first.file = file

\* C16: a call on a file that was parsed before ends as the earlier call
\* did, with the same error or the same records in the same order, whatever
\* was parsed in between and whatever the results table holds.
C16_SameFileSameOutcome ==
    SameFileAgain =>
        /\ pc = first.pc
        /\ ret = first.ret
        /\ err = first.err

\* A file returns its records a second time after a file of the other type
\* was parsed, and stored, in between.
C16_Witness ==
    /\ SameFileAgain
    /\ calls = 3
    /\ pc = "returned"
    /\ ret # <<>>
    /\ \E i \in 1..Len(db) : db[i].experiment_type # type

\* A POST that carried a file has been answered.
FileAnswered == hpc = "responded" /\ HasFile(request)

\* The upload succeeded: the file was saved and parse_file returned.
UploadSucceeded == request.upload = "plain" /\ pc = "returned"

\* C17: a POST with a file always ends with the upload page rendered and
\* the temporary file gone; on failure error_message is set and results is
\* None, on success results is set and error_message is None.
C17_UploadAlwaysRendersAndCleans ==
    FileAnswered =>
        /\ response = Rendered
        /\ requests \notin uploads
        /\ IF UploadSucceeded
           THEN results = <<ret>> /\ error_message = <<>>
           ELSE results = <<>> /\ error_message # <<>>

\* The request is a GET, or a POST without a file part.
NoFileSent(req) == req.method = "GET" \/ req.upload = "none"

\* C18: a GET, or a POST with no file, is answered with the upload page,
\* results and error_message both None, in one step that leaves the parser,
\* the upload directory and the results table as they were; nothing more
\* happens for that request.
C18_NoFileRequestOnlyRenders ==
    [][/\ (requests' # requests /\ NoFileSent(request')) =>
             /\ response' = Rendered
             /\ results' = <<>>
             /\ error_message' = <<>>
             /\ hpc' = "responded"
             /\ calls' = calls
             /\ uploads' = uploads
             /\ db' = db
             /\ UNCHANGED parser
       /\ (requests' = requests /\ NoFileSent(request)) => UNCHANGED vars]_vars

\* A POST without a file is answered while the results table holds the
\* rows of an earlier upload.
C18_Witness ==
    /\ hpc = "responded"
    /\ request.method = "POST"
    /\ request.upload = "none"
    /\ response = Rendered
    /\ results = <<>>
    /\ error_message = <<>>
    /\ db # <<>>
    /\ uploads = {}

====
